---- MODULE Spec2Model ----
(***************************************************************************)
(* Model of the YoBit API client: src/YoBitAPI.py (_YoBitPublic,           *)
(* _YoBitPrivate) and src/YoConnect.py (YoBit, _Account, _Market,          *)
(* _DeFiMarket).                                                           *)
(*                                                                         *)
(* SpecOps   one caller running the private operations one after another  *)
(*           on one private client, one step per statement of _get_nonce   *)
(*           and _api_query, under a wall clock that never moves backwards.*)
(* SpecSkew  the same caller under a wall clock that may be set back.      *)
(* SpecUrl   calls of the request builder _make_request_url.               *)
(* SpecFacade  one caller using the registry YoBit and its accounts.       *)
(* SpecBook  _Market.bids and _Market.max_bid on the orders of a market.   *)
(* Spec      two callers, each on a private client of its own or both on   *)
(*           the same one, running signed requests concurrently.           *)
(***************************************************************************)
EXTENDS Integers, Sequences, FiniteSets, TLC

VARIABLES
    clock,      \* int(time.time()): the wall clock, in whole seconds
    owner,      \* owner[t]: the private client the caller t works on
    pc,         \* pc[t]: position of caller t inside its operation
    cur,        \* cur[t]: the operation caller t is running and its arguments
    nonce,      \* nonce[c]: self._nonce of private client c
    seen,       \* seen[t]: the value of self._nonce read by the test of line 218
    wake,       \* wake[t]: the clock value from which time.sleep(1) has returned
    got,        \* got[t]: the value _get_nonce returned to caller t (0: none yet)
    issued,     \* issued[c]: the values _get_nonce returned on client c, in order
    burnt,      \* burnt[c]: the issued values whose request failed or raised
    req,        \* req[t]: the options of the last POST of caller t
    resp,       \* resp[t]: the last response caller t received
    outcome,    \* outcome[t]: how the last operation of caller t ended
    calls,      \* calls[t]: operations caller t has started
    posts,      \* number of invocations of the transport (requests.post)
    uargs,      \* the arguments of the last call of _make_request_url
    uout,       \* the string that call returned
    account_list, \* YoBit._account_list: title -> handle (0: no entry, -1: None)
    akey,       \* akey[h]: _api_key of the _Account object h
    anonce,     \* anonce[h]: _nonce of the _Account object h
    markets,    \* markets[h]: _markets of h, pair -> _Market object (0: no entry)
    pools,      \* pools[h]: _pools of h, pool -> _DeFiMarket object (0: no entry)
    children,   \* number of _Market and _DeFiMarket objects constructed
    wire,       \* wire[k]: the nonces POSTed under API key k, in order
    fcall,      \* the last call on the facade and what it returned
    fops,       \* number of calls made on the facade
    orders_list, \* _Market._orders_list: the orders, in the order of the dict
    bids_,      \* _Market._bids: the keys of the dict bids() returned, in order
    max_out,    \* the keys of the dict max_bid() returned
    bpc         \* "new", "built" (_bids is set), "asked" (max_bid has returned)

callerVars == <<clock, owner, pc, cur, nonce, seen, wake, got, issued, burnt,
                req, resp, outcome, calls, posts>>
urlVars == <<uargs, uout>>
facadeVars == <<account_list, akey, anonce, markets, pools, children, wire,
                fcall, fops>>
bookVars == <<orders_list, bids_, max_out, bpc>>
otherVars == <<urlVars, facadeVars, bookVars>>
vars == <<callerVars, urlVars, facadeVars, bookVars>>

(***************************************************************************)
(* Bounds                                                                  *)
(***************************************************************************)
MaxClock == 4
MaxCalls == 2

Threads == {"t1", "t2"}
Clients == {"c1", "c2"}
StartClock == 1

None == "None"
NoNonce == <<>>
NoReq == [method |-> "", nonce |-> NoNonce, rate |-> ""]
NoResp == [kind |-> ""]
NoOutcome == [kind |-> "", value |-> "", msg |-> ""]
Idle == [op |-> "", rate |-> ""]
Titles == {"main", "alt"}
Keys == {"k1", "k2"}
PairNames == {"ltc_btc", "doge_btc"}
PoolNames == {"btc_usdt"}
NoEntry == 0
NoneRef == -1
NoCall == [op |-> "", title |-> "", name |-> "", kind |-> "", ret |-> NoEntry,
           made |-> FALSE]

\* YoBit._account_list = dict(), no _Account object yet
InitFacade ==
    /\ account_list = [ti \in Titles |-> NoEntry]
    /\ akey = <<>>
    /\ anonce = <<>>
    /\ markets = <<>>
    /\ pools = <<>>
    /\ children = 0
    /\ wire = [k \in Keys |-> <<>>]
    /\ fcall = NoCall
    /\ fops = 0

\* no _Market whose orders are looked at
InitNoBook ==
    /\ orders_list = <<>>
    /\ bids_ = <<>>
    /\ max_out = {}
    /\ bpc = "new"

NoPair == <<"None">>
NoArgs == [market_type |-> <<>>, method |-> <<>>, pair |-> NoPair,
           ignore_invalid |-> FALSE, limit |-> 0]

(***************************************************************************)
(* str(n) of a non-negative int: its decimal digits                        *)
(***************************************************************************)
Digit(d) == <<"0", "1", "2", "3", "4", "5", "6", "7", "8", "9">>[d + 1]

RECURSIVE Str(_)
Str(k) == IF k < 10 THEN <<Digit(k)>> ELSE Str(k \div 10) \o <<Digit(k % 10)>>

(***************************************************************************)
(* _YoBitPrivate: the private operations and the options they assemble     *)
(***************************************************************************)
NonceOps == {"getinfo", "order_info", "active_orders", "cancel_order",
             "trade_history"}
PlainOps == {"trade", "deposit", "withdraw", "create_coupon", "redeem_coupon",
             "defi_swap_info", "defi_swap"}
PrivateOps == NonceOps \cup PlainOps

Method(op) ==
    CASE op = "getinfo"        -> "getInfo"
      [] op = "order_info"     -> "OrderInfo"
      [] op = "active_orders"  -> "ActiveOrders"
      [] op = "cancel_order"   -> "CancelOrder"
      [] op = "trade_history"  -> "TradeHistory"
      [] op = "trade"          -> "Trade"
      [] op = "deposit"        -> "GetDepositAddress"
      [] op = "withdraw"       -> "WithdrawCoinsToAddress"
      [] op = "create_coupon"  -> "CreateCoupon"
      [] op = "redeem_coupon"  -> "RedeemCoupon"
      [] op = "defi_swap_info" -> "DefiSwapInfo"
      [] op = "defi_swap"      -> "DefiSwap"

\* the rate argument of trade: a value, or None (the default of the parameter)
Rates == {"0.1", None}
RatesOf(op) == IF op = "trade" THEN Rates ELSE {""}

\* the options dict of an operation; n is the string _get_nonce returned, or
\* NoNonce for the operations whose dict has no nonce entry
Options(c, n) == [method |-> Method(c.op), nonce |-> n, rate |-> c.rate]

(***************************************************************************)
(* _YoBitPrivate.result and the responses of the exchange                  *)
(***************************************************************************)
ErrMsgs == {"invalid nonce"}
Responses ==
    {[kind |-> "success"], [kind |-> "nonjson"], [kind |-> "neterror"]}
    \cup {[kind |-> "failure", error |-> m] : m \in ErrMsgs}

\* result(): the payload on success, None (after a print) otherwise
Result(r) ==
    IF r.kind = "success"
    THEN [kind |-> "returned", value |-> "payload", msg |-> ""]
    ELSE [kind |-> "returned", value |-> None, msg |-> ""]

\* _api_query: result() of the decoded body; a body that is not JSON raises
\* Exception, a transport failure propagates from requests.post
ApiOutcome(r) ==
    CASE r.kind = "nonjson" ->
           [kind |-> "raised", value |-> "Exception",
            msg |-> "Exchange has not responded with JSON"]
      [] r.kind = "neterror" ->
           [kind |-> "raised", value |-> "RequestException", msg |-> ""]
      [] OTHER               -> Result(r)

(***************************************************************************)
(* _YoBitPrivate._get_nonce, statement by statement                        *)
(***************************************************************************)
\* the test of line 218 with < for <=: no sleep within the same clock second
NeedsSleepStrict(n, now) == n < now

\* line 218: if self._nonce <= int(time.time())
NeedsSleep(n, now) == n <= now

\* line 219: time.sleep(1) returns once a second has passed
SleepSeconds == 1

\* a caller enters one of the private operations ops
Begin(t, ops) ==
    /\ pc[t] = "idle"
    /\ calls[t] < MaxCalls
    /\ \E op \in ops : \E r \in RatesOf(op) :
          /\ cur' = [cur EXCEPT ![t] = [op |-> op, rate |-> r]]
          /\ pc' = [pc EXCEPT ![t] = IF op \in NonceOps THEN "load" ELSE "post"]
    /\ calls' = [calls EXCEPT ![t] = @ + 1]
    /\ got' = [got EXCEPT ![t] = 0]
    /\ req' = [req EXCEPT ![t] = NoReq]
    /\ resp' = [resp EXCEPT ![t] = NoResp]
    /\ outcome' = [outcome EXCEPT ![t] = NoOutcome]
    /\ UNCHANGED <<clock, owner, nonce, seen, wake, issued, burnt, posts>>
    /\ UNCHANGED otherVars

\* line 218, left operand: read self._nonce
LoadNonce(t) ==
    /\ pc[t] = "load"
    /\ seen' = [seen EXCEPT ![t] = nonce[owner[t]]]
    /\ pc' = [pc EXCEPT ![t] = "test"]
    /\ UNCHANGED <<clock, owner, cur, nonce, wake, got, issued, burnt, req, resp, outcome,
                   calls, posts>>
    /\ UNCHANGED otherVars

\* line 218, right operand and the test; line 219 starts the sleep
TestNonce(t) ==
    /\ pc[t] = "test"
    /\ IF NeedsSleep(seen[t], clock)
       THEN /\ pc' = [pc EXCEPT ![t] = "sleep"]
            /\ wake' = [wake EXCEPT ![t] = clock + SleepSeconds]
       ELSE /\ pc' = [pc EXCEPT ![t] = "store"]
            /\ UNCHANGED wake
    /\ UNCHANGED <<clock, owner, cur, nonce, seen, got, issued, burnt, req, resp, outcome,
                   calls, posts>>
    /\ UNCHANGED otherVars

\* line 219: time.sleep(1) returns
Wake(t) ==
    /\ pc[t] = "sleep"
    /\ clock >= wake[t]
    /\ pc' = [pc EXCEPT ![t] = "store"]
    /\ UNCHANGED <<clock, owner, cur, nonce, seen, wake, got, issued, burnt, req, resp,
                   outcome, calls, posts>>
    /\ UNCHANGED otherVars

\* line 220 with _nonce an attribute of the class, shared by every client
StoreNonceShared(t) ==
    /\ pc[t] = "store"
    /\ nonce' = [c \in Clients |-> clock]
    /\ pc' = [pc EXCEPT ![t] = "ret"]
    /\ UNCHANGED <<clock, owner, cur, seen, wake, got, issued, burnt, req, resp,
                   outcome, calls, posts>>
    /\ UNCHANGED otherVars

\* line 220: self._nonce = int(time.time())
StoreNonce(t) ==
    /\ pc[t] = "store"
    /\ nonce' = [nonce EXCEPT ![owner[t]] = clock]
    /\ pc' = [pc EXCEPT ![t] = "ret"]
    /\ UNCHANGED <<clock, owner, cur, seen, wake, got, issued, burnt, req, resp, outcome,
                   calls, posts>>
    /\ UNCHANGED otherVars

\* line 221: return str(self._nonce)
ReturnNonce(t) ==
    /\ pc[t] = "ret"
    /\ got' = [got EXCEPT ![t] = nonce[owner[t]]]
    /\ issued' = [issued EXCEPT ![owner[t]] = Append(@, nonce[owner[t]])]
    /\ UNCHANGED burnt
    /\ pc' = [pc EXCEPT ![t] = "post"]
    /\ UNCHANGED <<clock, owner, cur, nonce, seen, wake, req, resp, outcome, calls,
                   posts>>
    /\ UNCHANGED otherVars

\* _api_query: sign the options, POST them, unwrap the response
ApiQuery(t) ==
    /\ pc[t] = "post"
    /\ req' = [req EXCEPT ![t] =
                 Options(cur[t], IF cur[t].op \in NonceOps THEN Str(got[t]) ELSE NoNonce)]
    /\ posts' = posts + 1
    /\ \E r \in Responses :
          /\ resp' = [resp EXCEPT ![t] = r]
          /\ outcome' = [outcome EXCEPT ![t] = ApiOutcome(r)]
          /\ burnt' = [burnt EXCEPT ![owner[t]] =
                         IF cur[t].op \in NonceOps /\ r.kind # "success"
                         THEN @ \cup {got[t]} ELSE @]
    /\ pc' = [pc EXCEPT ![t] = "idle"]
    /\ seen' = [seen EXCEPT ![t] = 0]
    /\ wake' = [wake EXCEPT ![t] = 0]
    /\ UNCHANGED <<clock, owner, cur, nonce, got, issued, calls>>
    /\ UNCHANGED otherVars

\* a second of wall-clock time passes
Tick ==
    /\ clock < MaxClock
    /\ clock' = clock + 1
    /\ UNCHANGED <<owner, pc, cur, nonce, seen, wake, got, issued, burnt, req, resp, outcome,
                   calls, posts>>
    /\ UNCHANGED otherVars

\* the wall clock is set back (time.time() is not monotonic)
ClockBack ==
    /\ clock > StartClock
    /\ clock' = clock - 1
    /\ UNCHANGED <<owner, pc, cur, nonce, seen, wake, got, issued, burnt, req, resp, outcome,
                   calls, posts>>
    /\ UNCHANGED otherVars

\* the statements of an operation that follow its entry
Continue(t) ==
    \/ LoadNonce(t)
    \/ TestNonce(t)
    \/ Wake(t)
    \/ StoreNonce(t)
    \/ ReturnNonce(t)
    \/ ApiQuery(t)

InitCallers ==
    /\ clock = StartClock
    /\ pc = [t \in Threads |-> "idle"]
    /\ cur = [t \in Threads |-> Idle]
    /\ nonce = [c \in Clients |-> 0]
    /\ seen = [t \in Threads |-> 0]
    /\ wake = [t \in Threads |-> 0]
    /\ got = [t \in Threads |-> 0]
    /\ issued = [c \in Clients |-> <<>>]
    /\ burnt = [c \in Clients |-> {}]
    /\ req = [t \in Threads |-> NoReq]
    /\ resp = [t \in Threads |-> NoResp]
    /\ outcome = [t \in Threads |-> NoOutcome]
    /\ calls = [t \in Threads |-> 0]
    /\ posts = 0
    /\ uargs = NoArgs
    /\ uout = <<>>
    /\ InitFacade
    /\ InitNoBook

(***************************************************************************)
(* SpecOps: one caller, every private operation                            *)
(***************************************************************************)
Caller == "t1"

InitOps == InitCallers /\ owner = [t \in Threads |-> "c1"]

NextOps == Tick \/ Begin(Caller, PrivateOps) \/ Continue(Caller)

SpecOps == InitOps /\ [][NextOps]_vars

(***************************************************************************)
(* SpecSkew: the same caller, the wall clock may be set back               *)
(***************************************************************************)
NextSkew == NextOps \/ ClockBack

SpecSkew == InitOps /\ [][NextSkew]_vars

(***************************************************************************)
(* Spec: two callers running signed requests concurrently.  The five       *)
(* operations that take a nonce differ only in the method name and the     *)
(* arguments they send; the callers run getinfo.                           *)
(***************************************************************************)
ConcurrentOps == {"getinfo"}

Init == InitCallers /\ owner \in [Threads -> Clients]

Next == Tick \/ \E t \in Threads : Begin(t, ConcurrentOps) \/ Continue(t)

Spec == Init /\ [][Next]_vars

(***************************************************************************)
(* _YoBitPublic._make_request_url.  Strings are sequences of characters.   *)
(***************************************************************************)
MaxLimit == 12

ApiPublicUrl == <<"/", "a", "p", "i">>
MarketTypes == {<<"3">>, <<"d", "e", "f", "i">>}
Methods == {<<"i", "n", "f", "o">>, <<"t", "i", "c", "k", "e", "r">>,
            <<"d", "e", "p", "t", "h">>, <<"t", "r", "a", "d", "e", "s">>}
\* pair: None (the default), the empty string, a pair, a list of pairs, and
\* strings holding a character that is special in a URL
Pairs == {NoPair, <<>>, <<"l", "_", "b">>, <<"l", "_", "b", "-", "n", "_", "b">>,
          <<"l", "?", "b">>, <<"l", "_", "b", "?">>}
\* limit: around zero, and the values the callers pass (150, 2000)
Limits == (-1 .. MaxLimit) \cup {150, 2000}

\* urllib.parse.quote_plus on one character
SafeChars == {"0", "1", "2", "3", "4", "5", "6", "7", "8", "9", "_", ".", "-", "~",
              "a", "b", "c", "d", "e", "f", "g", "h", "i", "j", "k", "l", "m",
              "n", "o", "p", "q", "r", "s", "t", "u", "v", "w", "x", "y", "z"}
QuoteChar(ch) ==
    CASE ch \in SafeChars -> <<ch>>
      [] ch = " " -> <<"+">>
      [] ch = "?" -> <<"%", "3", "F">>
      [] ch = "/" -> <<"%", "2", "F">>
      [] ch = "=" -> <<"%", "3", "D">>
      [] ch = "&" -> <<"%", "2", "6">>

RECURSIVE QuotePlus(_)
QuotePlus(str) ==
    IF str = <<>> THEN <<>> ELSE QuoteChar(Head(str)) \o QuotePlus(Tail(str))

\* urllib.parse.urlencode of a dict given as the sequence of its items
RECURSIVE UrlEncode(_)
UrlEncode(items) ==
    IF items = <<>> THEN <<>>
    ELSE QuotePlus(items[1][1]) \o <<"=">> \o QuotePlus(items[1][2])
         \o (IF Len(items) > 1 THEN <<"&">> \o UrlEncode(Tail(items)) ELSE <<>>)

KeyIgnoreInvalid == <<"i", "g", "n", "o", "r", "e", "_", "i", "n", "v", "a", "l", "i", "d">>
KeyLimit == <<"l", "i", "m", "i", "t">>

\* lines 40-44: the options dict, in insertion order
UrlOptions(ignore_invalid, limit) ==
    (IF ignore_invalid THEN <<(<<KeyIgnoreInvalid, <<"1">>>>)>> ELSE <<>>)
    \o (IF limit > 0 THEN <<(<<KeyLimit, Str(limit)>>)>> ELSE <<>>)

\* lines 46-48 without the test of line 47: the '?' is always appended
AppendQueryAlways(request_url, options_url) ==
    request_url \o <<"?">> \o options_url

\* lines 47-48: if options_url > '': request_url += '?' + options_url
AppendQuery(request_url, options_url) ==
    IF options_url # <<>> THEN request_url \o <<"?">> \o options_url ELSE request_url

\* lines 36-50
MakeRequestUrlOf(market_type, method, pair, ignore_invalid, limit) ==
    LET base == ApiPublicUrl \o <<"/">> \o market_type \o <<"/">> \o method
        request_url == IF pair # NoPair /\ pair # <<>>
                       THEN base \o <<"/">> \o pair ELSE base
    IN  AppendQuery(request_url, UrlEncode(UrlOptions(ignore_invalid, limit)))

UrlArgs ==
    [market_type : MarketTypes, method : Methods, pair : Pairs,
     ignore_invalid : BOOLEAN, limit : Limits]

\* the arguments of the call are drawn here; callerVars as in InitCallers
InitUrl ==
    /\ clock = StartClock
    /\ owner = [t \in Threads |-> "c1"]
    /\ pc = [t \in Threads |-> "idle"]
    /\ cur = [t \in Threads |-> Idle]
    /\ nonce = [c \in Clients |-> 0]
    /\ seen = [t \in Threads |-> 0]
    /\ wake = [t \in Threads |-> 0]
    /\ got = [t \in Threads |-> 0]
    /\ issued = [c \in Clients |-> <<>>]
    /\ burnt = [c \in Clients |-> {}]
    /\ req = [t \in Threads |-> NoReq]
    /\ resp = [t \in Threads |-> NoResp]
    /\ outcome = [t \in Threads |-> NoOutcome]
    /\ calls = [t \in Threads |-> 0]
    /\ posts = 0
    /\ uargs \in UrlArgs
    /\ uout = <<>>
    /\ InitFacade
    /\ InitNoBook

\* the call of _make_request_url on the arguments uargs
MakeRequestUrl ==
    /\ uout = <<>>
    /\ uout' = MakeRequestUrlOf(uargs.market_type, uargs.method, uargs.pair,
                                uargs.ignore_invalid, uargs.limit)
    /\ UNCHANGED <<callerVars, uargs, facadeVars, bookVars>>

SpecUrl == InitUrl /\ [][MakeRequestUrl]_vars

(***************************************************************************)
(* YoConnect.py: the registry YoBit, _Account, _Market, _DeFiMarket.       *)
(* The facade is called by one caller; a call is one step, and the         *)
(* _get_nonce calls inside it run one after another.                       *)
(***************************************************************************)
MaxFacadeOps == 4
MaxFacadeClock == 6
MaxOversleep == 1

IsRef(v) == v >= 1
\* what a call on the facade did: the value it returned or that it raised, and
\* whether it constructed an object (_Account, _Market, _DeFiMarket)
Returned(op, ti, name, v, made) ==
    [op |-> op, title |-> ti, name |-> name, kind |-> "returned", ret |-> v,
     made |-> made]
Raised(op, ti, name, made) ==
    [op |-> op, title |-> ti, name |-> name, kind |-> "raised", ret |-> NoEntry,
     made |-> made]

\* _get_nonce without lines 218-219: the clock is read at once
NonceTimesNoWait(n, now) == {now}

\* _get_nonce run to its end by a single caller: the clock values line 220 can
\* read, given the stored value n and the clock now read by line 218
NonceTimes(n, now) ==
    IF NeedsSleep(n, now)
    THEN (now + SleepSeconds) .. (now + SleepSeconds + MaxOversleep)
    ELSE {now}

\* dict.get(key) is None: no entry, or an entry holding None
GetIsNone(v) == v = NoEntry \/ v = NoneRef

\* add_account without the test of line 39: a new _Account on every call
AddAccountTestAlways(v) == TRUE

\* line 39: if self._account_list.get(title) is None
AddAccountTest(v) == GetIsNone(v)

\* YoBit.add_account (lines 38-41) with _Account.__new__ and __init__
AddAccount(ti, k) ==
    /\ fops < MaxFacadeOps
    /\ fops' = fops + 1
    /\ IF ~AddAccountTest(account_list[ti])
       THEN \* line 41: return self.account(title)
            /\ fcall' = Returned("add_account", ti, k, account_list[ti], FALSE)
            /\ UNCHANGED <<account_list, akey, anonce, markets, pools, children,
                           wire, clock, posts>>
       ELSE \* _Account.__new__: a private client of its own calls getinfo
            \E c1 \in NonceTimes(0, clock) : \E r1 \in Responses :
               /\ c1 <= MaxFacadeClock
               /\ CASE ApiOutcome(r1).kind = "raised" ->
                         /\ fcall' = Raised("add_account", ti, k, FALSE)
                         /\ clock' = c1
                         /\ posts' = posts + 1
                         /\ wire' = [wire EXCEPT ![k] = Append(@, c1)]
                         /\ UNCHANGED <<account_list, akey, anonce, markets, pools,
                                        children>>
                    [] ApiOutcome(r1).kind = "returned"
                       /\ ApiOutcome(r1).value = None ->
                         \* __new__ returns None, which line 40 stores
                         /\ account_list' = [account_list EXCEPT ![ti] = NoneRef]
                         /\ fcall' = Returned("add_account", ti, k, NoneRef, FALSE)
                         /\ clock' = c1
                         /\ posts' = posts + 1
                         /\ wire' = [wire EXCEPT ![k] = Append(@, c1)]
                         /\ UNCHANGED <<akey, anonce, markets, pools, children>>
                    [] OTHER ->
                         \* the object is made; __init__ calls getinfo itself
                         \E c2 \in NonceTimes(0, c1) : \E r2 \in Responses :
                            /\ c2 <= MaxFacadeClock
                            /\ akey' = Append(akey, k)
                            /\ anonce' = Append(anonce, c2)
                            /\ markets' = Append(markets, [pa \in PairNames |-> NoEntry])
                            /\ pools' = Append(pools, [po \in PoolNames |-> NoEntry])
                            /\ clock' = c2
                            /\ posts' = posts + 2
                            /\ wire' = [wire EXCEPT ![k] = Append(Append(@, c1), c2)]
                            /\ UNCHANGED children
                            /\ IF ApiOutcome(r2).kind = "returned"
                                  /\ ApiOutcome(r2).value # None
                               THEN /\ account_list' =
                                         [account_list EXCEPT ![ti] = Len(akey) + 1]
                                    /\ fcall' = Returned("add_account", ti, k,
                                                         Len(akey) + 1, TRUE)
                               ELSE \* getinfo raised, or main_info is None and
                                    \* line 63 raises TypeError
                                    /\ fcall' = Raised("add_account", ti, k, TRUE)
                                    /\ UNCHANGED account_list
    /\ UNCHANGED <<owner, pc, cur, nonce, seen, wake, got, issued, burnt, req, resp,
                   outcome, calls, urlVars, bookVars>>

\* YoBit.delete_account (lines 50-52)
DeleteAccount(ti) ==
    /\ fops < MaxFacadeOps
    /\ fops' = fops + 1
    /\ account_list' = IF ~GetIsNone(account_list[ti])
                       THEN [account_list EXCEPT ![ti] = NoEntry]
                       ELSE account_list
    /\ fcall' = Returned("delete_account", ti, "", NoneRef, FALSE)
    /\ UNCHANGED <<akey, anonce, markets, pools, children, wire>>
    /\ UNCHANGED <<callerVars, urlVars, bookVars>>

\* _Account.market without the test of line 76: a new _Market on every call
MarketTestAlways(v) == TRUE

\* line 76: if self._markets.get(pair) is None
MarketTest(v) == GetIsNone(v)

\* _Account.market (lines 75-80) with _Market.__init__ (lines 101-112), on the
\* account registered under ti
Market(ti, pa) ==
    /\ fops < MaxFacadeOps
    /\ IsRef(account_list[ti])
    /\ fops' = fops + 1
    /\ LET h == account_list[ti] IN
       IF ~MarketTest(markets[h][pa])
       THEN \* line 80
            /\ fcall' = Returned("market", ti, pa, markets[h][pa], FALSE)
            /\ UNCHANGED <<anonce, markets, children, wire, clock, posts>>
       ELSE \/ \* line 77: info() raises
               /\ fcall' = Raised("market", ti, pa, FALSE)
               /\ UNCHANGED <<anonce, markets, children, wire, clock, posts>>
            \/ \* line 78: the exchange does not list the pair
               /\ fcall' = Returned("market", ti, pa, NoneRef, FALSE)
               /\ UNCHANGED <<anonce, markets, children, wire, clock, posts>>
            \/ \* line 79: _Market(account, pair); line 106 calls active_orders
               \E c1 \in NonceTimes(anonce[h], clock) : \E r \in Responses :
                 \E depth_ok \in BOOLEAN :
                  /\ c1 <= MaxFacadeClock
                  /\ anonce' = [anonce EXCEPT ![h] = c1]
                  /\ clock' = c1
                  /\ posts' = posts + 1
                  /\ wire' = [wire EXCEPT ![akey[h]] = Append(@, c1)]
                  /\ children' = children + 1
                  /\ IF /\ ApiOutcome(r).kind = "returned"
                        /\ ApiOutcome(r).value # None
                        /\ depth_ok
                     THEN /\ markets' = [markets EXCEPT ![h][pa] = children + 1]
                          /\ fcall' = Returned("market", ti, pa, children + 1, TRUE)
                     ELSE \* active_orders raised, or returned None and bids()
                          \* raises TypeError, or market_depth raised
                          /\ fcall' = Raised("market", ti, pa, TRUE)
                          /\ UNCHANGED markets
    /\ UNCHANGED <<account_list, akey, pools>>
    /\ UNCHANGED <<owner, pc, cur, nonce, seen, wake, got, issued, burnt, req, resp,
                   outcome, calls, urlVars, bookVars>>

\* _Account.delete_market (lines 82-84)
DeleteMarket(ti, pa) ==
    /\ fops < MaxFacadeOps
    /\ IsRef(account_list[ti])
    /\ fops' = fops + 1
    /\ LET h == account_list[ti] IN
       markets' = IF ~GetIsNone(markets[h][pa])
                  THEN [markets EXCEPT ![h][pa] = NoEntry]
                  ELSE markets
    /\ fcall' = Returned("delete_market", ti, pa, NoneRef, FALSE)
    /\ UNCHANGED <<account_list, akey, anonce, pools, children, wire>>
    /\ UNCHANGED <<callerVars, urlVars, bookVars>>

\* line 91: if self._pools.get(pool) is None
PoolTest(v) == GetIsNone(v)

\* _Account.pool (lines 90-93) with _DeFiMarket.__init__ (lines 168-170)
Pool(ti, po) ==
    /\ fops < MaxFacadeOps
    /\ IsRef(account_list[ti])
    /\ fops' = fops + 1
    /\ LET h == account_list[ti] IN
       IF PoolTest(pools[h][po])
       THEN /\ pools' = [pools EXCEPT ![h][po] = children + 1]
            /\ children' = children + 1
            /\ fcall' = Returned("pool", ti, po, children + 1, TRUE)
       ELSE /\ fcall' = Returned("pool", ti, po, pools[h][po], FALSE)
            /\ UNCHANGED <<pools, children>>
    /\ UNCHANGED <<account_list, akey, anonce, markets, wire>>
    /\ UNCHANGED <<callerVars, urlVars, bookVars>>

\* _Account.delete_pool (lines 95-97)
DeletePool(ti, po) ==
    /\ fops < MaxFacadeOps
    /\ IsRef(account_list[ti])
    /\ fops' = fops + 1
    /\ LET h == account_list[ti] IN
       pools' = IF ~GetIsNone(pools[h][po])
                THEN [pools EXCEPT ![h][po] = NoEntry]
                ELSE pools
    /\ fcall' = Returned("delete_pool", ti, po, NoneRef, FALSE)
    /\ UNCHANGED <<account_list, akey, anonce, markets, children, wire>>
    /\ UNCHANGED <<callerVars, urlVars, bookVars>>

\* a second of wall-clock time passes between two calls
FacadeTick ==
    /\ clock < MaxFacadeClock
    /\ clock' = clock + 1
    /\ UNCHANGED <<owner, pc, cur, nonce, seen, wake, got, issued, burnt, req, resp,
                   outcome, calls, posts>>
    /\ UNCHANGED otherVars

InitYoBit == InitCallers /\ owner = [t \in Threads |-> "c1"]

NextFacade ==
    \/ FacadeTick
    \/ \E ti \in Titles, k \in Keys : AddAccount(ti, k)
    \/ \E ti \in Titles : DeleteAccount(ti)
    \/ \E ti \in Titles, pa \in PairNames : Market(ti, pa)
    \/ \E ti \in Titles, pa \in PairNames : DeleteMarket(ti, pa)
    \/ \E ti \in Titles, po \in PoolNames : Pool(ti, po)
    \/ \E ti \in Titles, po \in PoolNames : DeletePool(ti, po)

SpecFacade == InitYoBit /\ [][NextFacade]_vars

(***************************************************************************)
(* _Market.bids and _Market.max_bid.  _orders_list is a dict from order id *)
(* to order; a dict is iterated in insertion order, so it is modelled as   *)
(* the sequence of its orders and the key of an order is its position.     *)
(***************************************************************************)
MaxOrders == 3
MaxRate == 3

OrderTypes == {"buy", "sell"}
Orders == [type : OrderTypes, rate : 1 .. MaxRate]

RECURSIVE SeqsUpTo(_, _)
SeqsUpTo(S, n) ==
    IF n = 0 THEN {<<>>}
    ELSE LET shorter == SeqsUpTo(S, n - 1)
         IN  shorter \cup {Append(q, x) : q \in {r \in shorter : Len(r) = n - 1}, x \in S}

\* lines 132-137: the keys of the orders of type 'buy', in dict order
RECURSIVE BidsFrom(_, _)
BidsFrom(list, key) ==
    IF key > Len(list) THEN <<>>
    ELSE (IF list[key].type = "buy" THEN <<key>> ELSE <<>>) \o BidsFrom(list, key + 1)

\* lines 142-145: the loop over self._bids from position i on
RECURSIVE MaxBidLoop(_, _, _, _, _)
MaxBidLoop(list, keys, i, max_rate, result) ==
    IF i > Len(keys) THEN result
    ELSE IF list[keys[i]].rate >= max_rate
         THEN MaxBidLoop(list, keys, i + 1, list[keys[i]].rate, result \cup {keys[i]})
         ELSE MaxBidLoop(list, keys, i + 1, max_rate, result)

\* lines 139-146: result = dict(), max_rate = 0, the loop, return result
MaxBidOf(list, keys) == MaxBidLoop(list, keys, 1, 0, {})

\* a _Market whose active_orders() stored the orders drawn here
InitBook ==
    /\ clock = StartClock
    /\ owner = [t \in Threads |-> "c1"]
    /\ pc = [t \in Threads |-> "idle"]
    /\ cur = [t \in Threads |-> Idle]
    /\ nonce = [c \in Clients |-> 0]
    /\ seen = [t \in Threads |-> 0]
    /\ wake = [t \in Threads |-> 0]
    /\ got = [t \in Threads |-> 0]
    /\ issued = [c \in Clients |-> <<>>]
    /\ burnt = [c \in Clients |-> {}]
    /\ req = [t \in Threads |-> NoReq]
    /\ resp = [t \in Threads |-> NoResp]
    /\ outcome = [t \in Threads |-> NoOutcome]
    /\ calls = [t \in Threads |-> 0]
    /\ posts = 0
    /\ uargs = NoArgs
    /\ uout = <<>>
    /\ InitFacade
    /\ orders_list \in SeqsUpTo(Orders, MaxOrders)
    /\ bids_ = <<>>
    /\ max_out = {}
    /\ bpc = "new"

\* line 108 of _Market.__init__: self._bids = self.bids()
Bids ==
    /\ bpc = "new"
    /\ bids_' = BidsFrom(orders_list, 1)
    /\ bpc' = "built"
    /\ UNCHANGED <<orders_list, max_out, callerVars, urlVars, facadeVars>>

\* _Market.max_bid
MaxBid ==
    /\ bpc = "built"
    /\ max_out' = MaxBidOf(orders_list, bids_)
    /\ bpc' = "asked"
    /\ UNCHANGED <<orders_list, bids_, callerVars, urlVars, facadeVars>>

NextBook == Bids \/ MaxBid

SpecBook == InitBook /\ [][NextBook]_vars

(***************************************************************************)
(* Properties                                                              *)
(***************************************************************************)
Increasing(q) == \A i, j \in DOMAIN q : i < j => q[i] < q[j]
InIssuance(t) == pc[t] \in {"load", "test", "sleep", "store", "ret"}
Finished(t) == pc[t] = "idle" /\ cur[t] # Idle

\* C1: the values _get_nonce returns to one caller working on one private
\* client, under a wall clock that never moves backwards, are strictly
\* increasing, whatever became of the earlier requests, and the stored
\* last-issued value never falls below a value already returned.
C1_SequentialIncreasing ==
    \A c \in Clients :
        /\ Increasing(issued[c])
        /\ \A i \in DOMAIN issued[c] : issued[c][i] <= nonce[c]

\* a value whose request failed or raised, followed by a later issuance
C1_Witness ==
    /\ Len(issued["c1"]) >= 2
    /\ issued["c1"][1] \in burnt["c1"]
    /\ issued["c1"][2] > issued["c1"][1]

\* C2 (as claimed): with callers sharing a private client, no two calls of
\* _get_nonce return the same value and none returns a value lower than one
\* returned before.
C2_NoDuplicateNoDecrease ==
    \A c \in Clients : \A i, j \in DOMAIN issued[c] :
        i < j => issued[c][i] < issued[c][j]

\* C3 (as claimed): every POST of a private operation carries a nonce entry,
\* the value just obtained from the client's counter.
C3_EveryRequestHasNonce ==
    \A t \in Threads :
        req[t] # NoReq =>
            /\ req[t].nonce # NoNonce
            /\ issued[owner[t]] # <<>>
            /\ req[t].nonce = Str(got[t])

\* C4 (as claimed): an operation that receives a failure envelope ends by
\* raising ExchangeError with the server's message, never by returning None.
C4_FailureRaisesExchangeError ==
    \A t \in Threads :
        (Finished(t) /\ resp[t].kind = "failure") =>
            /\ outcome[t].kind = "raised"
            /\ outcome[t].value = "ExchangeError"
            /\ outcome[t].msg = resp[t].error

\* C5 (as claimed): trade with rate missing makes no POST and ends by raising
\* ValidationError.
C5_MissingRateRejected ==
    \A t \in Threads :
        (cur[t].op = "trade" /\ cur[t].rate = None) =>
            /\ req[t] = NoReq
            /\ Finished(t) =>
                  outcome[t].kind = "raised" /\ outcome[t].value = "ValidationError"

\* C6 (as claimed): _get_nonce stores a new value only once the wall clock
\* exceeds the last-issued value it found, and the value it returns exceeds
\* that last-issued value.
C6_ReturnsAboveLastIssued ==
    \A t \in Threads :
        /\ pc[t] = "ret" => nonce[owner[t]] > seen[t]
        /\ (pc[t] = "post" /\ cur[t].op \in NonceOps) => got[t] > seen[t]

\* C7: private clients do not interact.  A step changes the counter of a
\* client only when it is line 220 run by a caller working on that client,
\* and a caller inside _get_nonce can take its next step whatever the callers
\* on other clients are doing: only its own sleep holds it.
C7_Untouched ==
    \A c \in Clients :
        nonce'[c] # nonce[c] =>
            \E t \in Threads :
                owner[t] = c /\ pc[t] = "store" /\ pc'[t] = "ret"

C7_NonBlocking ==
    \A t \in Threads :
        InIssuance(t) =>
            (ENABLED Continue(t) <=> (pc[t] = "sleep" => clock >= wake[t]))

C7_Isolation == [][C7_Untouched]_vars /\ []C7_NonBlocking

\* one caller still asleep inside _get_nonce while a caller on another client
\* has stored its new counter value
C7_Witness ==
    /\ owner["t1"] # owner["t2"]
    /\ pc["t1"] = "sleep" /\ clock < wake["t1"]
    /\ pc["t2"] = "ret"
    /\ nonce[owner["t2"]] # nonce[owner["t1"]]

Count(str, ch) == Cardinality({i \in DOMAIN str : str[i] = ch})
IsPrefix(pre, str) == Len(pre) <= Len(str) /\ SubSeq(str, 1, Len(pre)) = pre
DropPrefix(pre, str) == SubSeq(str, Len(pre) + 1, Len(str))
DigitValue(ch) ==
    CASE ch = "0" -> 0 [] ch = "1" -> 1 [] ch = "2" -> 2 [] ch = "3" -> 3
      [] ch = "4" -> 4 [] ch = "5" -> 5 [] ch = "6" -> 6 [] ch = "7" -> 7
      [] ch = "8" -> 8 [] ch = "9" -> 9 [] OTHER -> -1
\* str is the decimal numeral of k: digits only, no leading zero, value k
IsNumeral(str, k) ==
    /\ str # <<>>
    /\ \A i \in DOMAIN str : DigitValue(str[i]) >= 0
    /\ (Len(str) > 1 => str[1] # "0")
    /\ LET RECURSIVE Value(_)
           Value(q) == IF q = <<>> THEN 0
                       ELSE 10 * Value(SubSeq(q, 1, Len(q) - 1)) + DigitValue(q[Len(q)])
       IN  Value(str) = k

UrlCalled == uout # <<>>
PairGiven == uargs.pair # NoPair /\ uargs.pair # <<>>
OptionPresent == uargs.ignore_invalid \/ uargs.limit > 0
UrlPath ==
    <<"/", "a", "p", "i", "/">> \o uargs.market_type \o <<"/">> \o uargs.method
    \o (IF PairGiven THEN <<"/">> \o uargs.pair ELSE <<>>)
IgnoreText == <<"i", "g", "n", "o", "r", "e", "_", "i", "n", "v", "a", "l", "i", "d", "=", "1">>
LimitText == <<"l", "i", "m", "i", "t", "=">>

\* the result is the path, then nothing when no option is present, else '?'
\* and the present options, ignore_invalid=1 before limit=N, joined by '&'
UrlShape ==
    /\ IsPrefix(UrlPath, uout)
    /\ LET rest == DropPrefix(UrlPath, uout)
       IN  CASE ~OptionPresent -> rest = <<>>
             [] uargs.ignore_invalid /\ ~(uargs.limit > 0) ->
                  rest = <<"?">> \o IgnoreText
             [] ~uargs.ignore_invalid /\ uargs.limit > 0 ->
                  /\ IsPrefix(<<"?">> \o LimitText, rest)
                  /\ IsNumeral(DropPrefix(<<"?">> \o LimitText, rest), uargs.limit)
             [] OTHER ->
                  /\ IsPrefix(<<"?">> \o IgnoreText \o <<"&">> \o LimitText, rest)
                  /\ IsNumeral(DropPrefix(<<"?">> \o IgnoreText \o <<"&">> \o LimitText,
                                          rest), uargs.limit)

\* C10 (as claimed): the result has the shape above and contains a '?' if and
\* only if an option is present.
C10_QuestionMarkIffOption ==
    UrlCalled => /\ UrlShape
                 /\ (Count(uout, "?") > 0 <=> OptionPresent)

\* C10 (amended): the result has the shape above: the builder appends one '?'
\* (and the query) if and only if an option is present, so the result holds
\* one '?' more than the path when an option is present and as many as the
\* path (whose parts are inserted as given) when none is.
C10_BuilderAddsQueryIffOption ==
    UrlCalled => /\ UrlShape
                 /\ Count(uout, "?") = Count(UrlPath, "?")
                                       + (IF OptionPresent THEN 1 ELSE 0)

\* a call with a pair and both options
C10_Witness ==
    /\ UrlCalled
    /\ PairGiven
    /\ uargs.ignore_invalid
    /\ uargs.limit = 150
    /\ Count(uout, "?") = 1

FacadeCalled(op) == fops' = fops + 1 /\ fcall'.op = op

\* C8: add_account with a title that maps to an account handle returns that
\* handle, whatever key is passed, constructs no _Account, sends nothing and
\* leaves the registry as it was; and no two titles share a handle.
C8_ExistingTitle ==
    (FacadeCalled("add_account") /\ IsRef(account_list[fcall'.title])) =>
        /\ fcall'.kind = "returned"
        /\ fcall'.ret = account_list[fcall'.title]
        /\ ~fcall'.made
        /\ account_list' = account_list
        /\ Len(akey') = Len(akey)
        /\ posts' = posts

C8_OneHandlePerTitle ==
    \A t1, t2 \in Titles :
        IsRef(account_list[t1]) =>
            /\ account_list[t1] <= Len(akey)
            /\ (t1 # t2 => account_list[t1] # account_list[t2])

C8_IdempotentRegistration == [][C8_ExistingTitle]_vars /\ []C8_OneHandlePerTitle

\* add_account returned a handle bound to another key than the one passed
C8_Witness ==
    /\ fcall.op = "add_account"
    /\ fcall.kind = "returned"
    /\ IsRef(fcall.ret)
    /\ ~fcall.made
    /\ akey[fcall.ret] # fcall.name

ChildAt(m, p, h, op, name) == IF op = "market" THEN m[h][name] ELSE p[h][name]
IsLookup(c) == c.op \in {"market", "pool"}

C9_Lookup ==
    (fops' = fops + 1 /\ IsLookup(fcall')) =>
        LET h == account_list[fcall'.title]
            old == ChildAt(markets, pools, h, fcall'.op, fcall'.name)
            new == ChildAt(markets', pools', h, fcall'.op, fcall'.name)
        IN  /\ IsRef(old) =>
                 /\ fcall'.kind = "returned" /\ fcall'.ret = old
                 /\ ~fcall'.made /\ children' = children
                 /\ new = old
            /\ (~IsRef(old) /\ fcall'.op = "pool") =>
                 /\ fcall'.kind = "returned" /\ fcall'.ret = new
                 /\ new = children + 1 /\ children' = children + 1
            /\ (~IsRef(old) /\ fcall'.op = "market") =>
                 \/ /\ fcall'.kind = "returned" /\ fcall'.ret = new
                    /\ new = children + 1 /\ children' = children + 1
                 \/ /\ fcall'.kind = "returned" /\ fcall'.ret = NoneRef
                    /\ new = old /\ children' = children
                 \/ /\ fcall'.kind = "raised" /\ new = old
            /\ \A g \in DOMAIN markets : \A pa \in PairNames :
                 (g # h \/ fcall'.op # "market" \/ pa # fcall'.name) =>
                     markets'[g][pa] = markets[g][pa]
            /\ \A g \in DOMAIN pools : \A po \in PoolNames :
                 (g # h \/ fcall'.op # "pool" \/ po # fcall'.name) =>
                     pools'[g][po] = pools[g][po]

C9_OneChildPerName ==
    \A g \in DOMAIN markets :
        /\ \A p1, p2 \in PairNames :
             (IsRef(markets[g][p1]) /\ p1 # p2) => markets[g][p1] # markets[g][p2]
        /\ \A pa \in PairNames, po \in PoolNames :
             IsRef(markets[g][pa]) => markets[g][pa] # pools[g][po]
        /\ \A pa \in PairNames : markets[g][pa] <= children
        /\ \A po \in PoolNames : pools[g][po] <= children

C11_SleepsOnlyWhenClockNotAdvanced ==
    \A t \in Threads :
        pc[t] = "sleep" => wake[t] - SleepSeconds <= seen[t]

\* C12: the nonces POSTed one after another under one API key are strictly
\* increasing, though they come from several client objects that each start
\* at _nonce = 0: the private client of _Account.__new__, the account itself,
\* and an account added again with the same key (wall clock not set back).
C12_SameKeyIncreasing == \A k \in Keys : Increasing(wire[k])

\* the first account was registered, sent a request of its own (it holds a
\* market) and was deleted; a second account object made with the same key is
\* registered now, after the two getinfo requests of add_account
C12_Witness ==
    /\ Len(akey) >= 2
    /\ akey[1] = akey[2]
    /\ \E pa \in PairNames : IsRef(markets[1][pa])
    /\ Len(wire[akey[1]]) >= 5
    /\ fcall.op = "add_account" /\ fcall.kind = "returned" /\ fcall.made
    /\ account_list[fcall.title] = 2
    /\ \A ti \in Titles : account_list[ti] # 1

\* C13 (as claimed): no title of the registry maps to None, and after
\* delete_account(title) the registry has no entry for the title.
C13_NoNullEntry ==
    /\ \A ti \in Titles : account_list[ti] # NoneRef
    /\ fcall.op = "delete_account" => account_list[fcall.title] = NoEntry

BuyKeys == {k \in DOMAIN orders_list : orders_list[k].type = "buy"}
HighestBuyKeys ==
    {k \in BuyKeys : \A j \in BuyKeys : orders_list[j].rate <= orders_list[k].rate}

\* C14 (as claimed): max_bid returns exactly the buy orders whose rate is the
\* highest rate among the buy orders, whatever the order of the dict.
C14_MaxBidExact == bpc = "asked" => max_out = HighestBuyKeys

====
